---- MODULE Spec2Model ----
(***************************************************************************)
(* Print-photo pipeline of chronoframe: the print serving route, the job   *)
(* queue that drives processPrintPhoto, and processPrintPhoto itself.      *)
(*                                                                         *)
(* Paths and storage keys are sequences of tokens: "photos" and "print"    *)
(* stand for the directory names, "/" "\\" "." are single characters and   *)
(* "a" "b" are file-name characters.                                       *)
(***************************************************************************)
EXTENDS Integers, Sequences, FiniteSets, TLC

(* ------------------------------ bounds -------------------------------- *)

\* tasks ever inserted into the queue
MaxTasks == 2
\* largest value of the millisecond clock (Date.now(), createdAt)
MaxClock == 1
\* host shutdowns in one behaviour
MaxCrashes == 1

\* largest width and height of the small sources
MaxDim == 12

\* a GPS coordinate as extractLocationFromGPS gets it: a number, or undefined
Coordinate(v) == [given |-> TRUE, value |-> v]
Undefined == [given |-> FALSE, value |-> 0]

\* Date.now() when the first call is made: far from 0, the initial lastRequestTime
GeoStart == 1000

\* granularity of the geocoding clock
GeoStep == 500

\* the geocoding clock runs from GeoStart to MaxGeoTime in steps of GeoStep (ms)
MaxGeoTime == 2000

\* requests followed in one behaviour
MaxRequests == 3

Workers == {"w1", "w2"}

\* calls of extractLocationFromGPS that may overlap
GeoCalls == {"g1", "g2"}

\* provider instances: one made for each call that passes none, and one the
\* caller made and passes to its calls
Instances == GeoCalls \cup {"shared"}

\* latitudes and longitudes passed
Latitudes == { Undefined, Coordinate(0), Coordinate(45), Coordinate(-91) }
Longitudes == { Coordinate(0), Coordinate(100), Coordinate(181) }

\* image names a client may ask for; the first two pass the route's validation
ValidNames == { <<"a">>, <<"b">> }
BadNames == { <<".", ".">>, <<"a", "/", "b">>, <<"\\", "a">> }
\* a name with an extension: single dots pass the validation
DottedNames == { <<"a", ".", "b">> }
RequestNames == ValidNames \cup DottedNames \cup BadNames \cup { <<>> }

\* priority and maxAttempts the upload trigger may pass to addTask (the serving
\* route passes RoutePriority and RouteMaxAttempts)
UploadPriorities == {1, 9}
UploadMaxAttempts == {2}

\* widths and heights metadata reports: every small one, and some of camera size
SampleDims == {499, 500, 501, 749, 750, 1000, 1501, 3000, 4000, 6000}
Dims == (1..MaxDim) \cup SampleDims

\* channel means stats() reports, rounded
Channels == {0, 92, 128, 142, 242}

(* ------------------------- program constants -------------------------- *)

RoutePriority == 5

\* (faulty variant) the route enqueues with another retry budget
RouteMaxAttempts_Five == 3 + 2

RouteMaxAttempts == 3

(* ------------------------------ strings ------------------------------- *)

\* String.prototype.includes for a one-character needle
Includes(s, c) == \E i \in 1..Len(s) : s[i] = c

\* String.prototype.includes for the two-character needle '..'
IncludesDotDot(s) == \E i \in 1..(Len(s) - 1) : s[i] = "." /\ s[i + 1] = "."

\* index of the last "/" of a key, 0 when there is none
LastSlash(k) ==
    LET S == { i \in 1..Len(k) : k[i] = "/" }
    IN  IF S = {} THEN 0 ELSE CHOOSE i \in S : \A j \in S : j <= i

\* path.basename(storageKey)
Basename(k) == SubSeq(k, LastSlash(k) + 1, Len(k))

\* (faulty variant) only the separators are refused
InvalidName_NoDotDot(imageName) ==
    \/ Includes(imageName, "/")
    \/ Includes(imageName, "\\")

\* the route's validation of imageName: TRUE when the name is refused
InvalidName(imageName) ==
    \/ IncludesDotDot(imageName)
    \/ Includes(imageName, "/")
    \/ Includes(imageName, "\\")

\* the segments of a path: the token runs between its "/"
RECURSIVE Segments(_)
Segments(p) ==
    IF ~Includes(p, "/") THEN <<p>>
    ELSE LET i == CHOOSE j \in 1..Len(p) : p[j] = "/" /\ \A k \in 1..(j - 1) : p[k] # "/"
         IN  <<SubSeq(p, 1, i - 1)>> \o Segments(SubSeq(p, i + 1, Len(p)))

\* path.resolve walking the segments: '' and '.' stay, '..' goes one directory up;
\* a path that leaves basePath is marked with the segment "outside"
RECURSIVE Walk(_, _)
Walk(segs, at) ==
    IF segs = <<>> THEN at
    ELSE IF Head(segs) \in { <<>>, <<".">> } THEN Walk(Tail(segs), at)
    ELSE IF Head(segs) = <<".", ".">> THEN
        IF at = <<>> \/ at[1] = <<"outside">>
        THEN Walk(Tail(segs), <<<<"outside">>>>)
        ELSE Walk(Tail(segs), SubSeq(at, 1, Len(at) - 1))
    ELSE Walk(Tail(segs), Append(at, Head(segs)))

\* path.resolve(basePath, p): the directories and the file below basePath
Resolve(p) == Walk(Segments(p), <<>>)

\* path.resolve(path.resolve(basePath, 'photos/print'), imageName), relative to basePath
PrintFilePath(imageName) == <<"photos", "/", "print", "/">> \o imageName

\* path.resolve(basePath, 'photos', imageName), relative to basePath
OriginalFilePath(imageName) == <<"photos", "/">> \o imageName

\* the storageKey the route passes to addTask: `photos/${imageName}`
RouteStorageKey(imageName) == <<"photos", "/">> \o imageName

\* (faulty variant) the composite is written over the original
PrintKey_SourceKey(storageKey) == storageKey

\* the key processPrintPhoto writes: `print/${path.basename(storageKey)}`
PrintKey(storageKey) == <<"print", "/">> \o Basename(storageKey)

(* ------------------------------- state -------------------------------- *)

VARIABLES
    provider,   \* storage provider configured: "local" or "remote"
    variant,    \* processPrintPhoto built in: "reattach" (EXIF copy) or "plain"
    files,      \* keys present in storage (with the local provider: files under basePath)
    tmp,        \* files present in os.tmpdir()
    tasks,      \* the queue's task store, in dispatch order
    nextId,     \* id of the next task inserted
    now,        \* the clock
    worker,     \* per worker: the task it runs and where processPrintPhoto stands
    crashes,    \* host shutdowns so far
    resp,       \* the response of the request served in the last step
    created,    \* the calls of storageProvider.create that succeeded so far
    geo,        \* reverse geocoding: clock, provider instances, calls, requests sent
    source,     \* one call of processPrintPhoto: metadata.width and metadata.height
    plan        \* the same call: what it has computed from them so far

vars == <<provider, variant, files, tmp, tasks, nextId, now, worker, crashes, resp,
          created, geo, source, plan>>

pipeline == <<provider, variant, files, tmp, tasks, nextId, now, worker, crashes, resp,
              created>>

\* a call of extractLocationFromGPS that has not started
NoGeoCall ==
    [pc |-> "idle", lat |-> Undefined, lon |-> Undefined, inst |-> "none",
     called |-> FALSE, result |-> "none", wake |-> 0]

\* no call is being followed through its computations
NoSource == [width |-> 0, height |-> 0]

NoPlan == [pc |-> "none"]

\* addTask was not called
NoCall == [type |-> "none", storageKey |-> <<>>]

\* addTask({type: 'print-photo', storageKey, ...}, ...)
Call(key) == [type |-> "print-photo", storageKey |-> key]

NoResp == [route |-> "none", status |-> 0, message |-> "", name |-> <<>>, addTask |-> NoCall,
           accessed |-> {}, queried |-> FALSE]

\* a response, with what was done while serving: the call of addTask, the paths
\* given to fs.access, whether the database was queried
Response(route, imageName, status, message, key, accessed, queried) ==
    [route |-> route, status |-> status, message |-> message, name |-> imageName,
     addTask |-> key, accessed |-> accessed, queried |-> queried]

NoPath == [kind |-> "none", t |-> 0]

Idle == [task |-> 0, pc |-> "idle",
         inputTempPath |-> NoPath, originalTempPath |-> NoPath]

Live(t) == t.status \in {"pending", "processing"}

(* ------------------------------ the queue ----------------------------- *)

\* (faulty variant) addTask does not look for a live task of the key
HasLive_Never(ts, key) == FALSE

\* a live task already exists for the key
HasLive(ts, key) == \E i \in 1..Len(ts) : Live(ts[i]) /\ ts[i].storageKey = key

\* (faulty variant) a new task goes in front of the older tasks of its priority
InsertPos_Lifo(ts, p, c) == Cardinality({ i \in 1..Len(ts) : ts[i].priority > p })

\* tasks that stay in front of a new task of priority p created at c
InsertPos(ts, p, c) ==
    Cardinality({ i \in 1..Len(ts) :
        \/ ts[i].priority > p
        \/ ts[i].priority = p /\ ts[i].createdAt <= c })

InsertAt(ts, k, t) == SubSeq(ts, 1, k) \o <<t>> \o SubSeq(ts, k + 1, Len(ts))

NewTask(id, key, p, m, c) ==
    [id |-> id, type |-> "print-photo", storageKey |-> key, priority |-> p,
     attempts |-> 0, maxAttempts |-> m, status |-> "pending", createdAt |-> c,
     lastError |-> "none"]

\* addTask(spec, {priority, maxAttempts, status: 'pending'}): the task store afterwards
AddTask(ts, id, key, p, m, c) ==
    IF HasLive(ts, key)
    THEN ts
    ELSE InsertAt(ts, InsertPos(ts, p, c), NewTask(id, key, p, m, c))

\* addTask inserts (the model's task store has room for it)
Inserts(ts, key) == ~HasLive(ts, key)

\* (faulty variant) dispatch does not test the status it is about to change
Pending_NoStatusTest(ts) == { i \in 1..Len(ts) : ts[i].status \in {"pending", "processing"} }

\* positions of the tasks dispatch may take
Pending(ts) == { i \in 1..Len(ts) : ts[i].status = "pending" }

\* dispatch's choice: the first pending task in store order
SelectTask(ts) == CHOOSE i \in Pending(ts) : \A j \in Pending(ts) : i <= j

TaskIndex(ts, id) == CHOOSE i \in 1..Len(ts) : ts[i].id = id

(* --------------------------- the serving route ------------------------ *)

\* (faulty variant) the source is not checked before enqueueing
ReachesAddTask_NoSourceCheck(imageName) == PrintFilePath(imageName) \notin files

\* the cache-miss branch reaches addTask: artifact absent, source present
ReachesAddTask(imageName) ==
    /\ PrintFilePath(imageName) \notin files
    /\ OriginalFilePath(imageName) \in files

\* the status message the client gets on the cache-miss branch with the source
\* present: the createError thrown after addTask sits inside the try whose catch
\* throws 'Image not found'
AfterEnqueueMessage == "Image not found"

\* GET /storage/print/[imageName], first handler of the file (no enqueueing)
RequestPlain(imageName) ==
    /\ resp' =
        IF imageName = <<>> THEN
            Response("plain", imageName, 400, "Image name is required", NoCall, {}, FALSE)
        ELSE IF InvalidName(imageName) THEN
            Response("plain", imageName, 400, "Invalid image name", NoCall, {}, FALSE)
        ELSE IF provider # "local" THEN
            Response("plain", imageName, 404, "Not Found", NoCall, {}, FALSE)
        ELSE IF PrintFilePath(imageName) \in files THEN
            Response("plain", imageName, 200, "stream", NoCall,
                     { PrintFilePath(imageName) }, FALSE)
        ELSE
            Response("plain", imageName, 404, "Print image not found", NoCall,
                     { PrintFilePath(imageName) }, FALSE)
    /\ UNCHANGED <<geo, source, plan, created, provider, variant, files, tmp, tasks, nextId, now, worker, crashes>>

\* GET /storage/print/[imageName], second handler of the file (enqueueing)
RequestEnqueue(imageName) ==
    IF imageName = <<>> THEN
        /\ resp' = Response("enqueue", imageName, 400, "Image name is required", NoCall, {}, FALSE)
        /\ UNCHANGED <<geo, source, plan, created, provider, variant, files, tmp, tasks, nextId, now, worker, crashes>>
    ELSE IF InvalidName(imageName) THEN
        /\ resp' = Response("enqueue", imageName, 400, "Invalid image name", NoCall, {}, FALSE)
        /\ UNCHANGED <<geo, source, plan, created, provider, variant, files, tmp, tasks, nextId, now, worker, crashes>>
    ELSE IF provider # "local" THEN
        /\ resp' = Response("enqueue", imageName, 404, "Not Found", NoCall, {}, FALSE)
        /\ UNCHANGED <<geo, source, plan, created, provider, variant, files, tmp, tasks, nextId, now, worker, crashes>>
    ELSE IF PrintFilePath(imageName) \in files THEN
        /\ resp' = Response("enqueue", imageName, 200, "stream", NoCall,
                     { PrintFilePath(imageName) }, FALSE)
        /\ UNCHANGED <<geo, source, plan, created, provider, variant, files, tmp, tasks, nextId, now, worker, crashes>>
    ELSE IF ReachesAddTask(imageName) THEN
        /\ Inserts(tasks, RouteStorageKey(imageName)) => Len(tasks) < MaxTasks
        /\ tasks' = AddTask(tasks, nextId, RouteStorageKey(imageName),
                            RoutePriority, RouteMaxAttempts, now)
        /\ nextId' = IF Inserts(tasks, RouteStorageKey(imageName))
                     THEN nextId + 1 ELSE nextId
        /\ resp' = Response("enqueue", imageName, 404, AfterEnqueueMessage,
                            Call(RouteStorageKey(imageName)),
                            { PrintFilePath(imageName), OriginalFilePath(imageName) }, TRUE)
        /\ UNCHANGED <<geo, source, plan, created, provider, variant, files, tmp, now, worker, crashes>>
    ELSE
        /\ resp' = Response("enqueue", imageName, 404, "Image not found", NoCall,
                     { PrintFilePath(imageName), OriginalFilePath(imageName) }, FALSE)
        /\ UNCHANGED <<geo, source, plan, created, provider, variant, files, tmp, tasks, nextId, now, worker, crashes>>

(* ----------------------------- environment ---------------------------- *)

\* an upload stores the original
Upload(imageName) ==
    /\ OriginalFilePath(imageName) \notin files
    /\ files' = files \cup { OriginalFilePath(imageName) }
    /\ resp' = NoResp
    /\ UNCHANGED <<geo, source, plan, created, provider, variant, tmp, tasks, nextId, now, worker, crashes>>

\* the upload pipeline asks for the print derivative of a stored original
EnqueueOnUpload(imageName, p, m) ==
    /\ OriginalFilePath(imageName) \in files
    /\ Inserts(tasks, RouteStorageKey(imageName)) => Len(tasks) < MaxTasks
    /\ tasks' = AddTask(tasks, nextId, RouteStorageKey(imageName), p, m, now)
    /\ nextId' = IF Inserts(tasks, RouteStorageKey(imageName)) THEN nextId + 1 ELSE nextId
    /\ resp' = NoResp
    /\ UNCHANGED <<geo, source, plan, created, provider, variant, files, tmp, now, worker, crashes>>

\* the original is deleted from storage
DeleteSource(imageName) ==
    /\ OriginalFilePath(imageName) \in files
    /\ files' = files \ { OriginalFilePath(imageName) }
    /\ resp' = NoResp
    /\ UNCHANGED <<geo, source, plan, created, provider, variant, tmp, tasks, nextId, now, worker, crashes>>

\* a millisecond passes
Tick ==
    /\ now < MaxClock
    /\ now' = now + 1
    /\ resp' = NoResp
    /\ UNCHANGED <<geo, source, plan, created, provider, variant, files, tmp, tasks, nextId, worker, crashes>>

(* --------------------------- queue: dispatch -------------------------- *)

SetTask(ts, i, t) == [ts EXCEPT ![i] = t]

\* dispatch(): an idle worker takes the selected pending task to processing
Dispatch(w) ==
    /\ worker[w].pc = "idle"
    /\ Pending(tasks) # {}
    /\ LET i == SelectTask(tasks) IN
        /\ tasks' = SetTask(tasks, i, [tasks[i] EXCEPT !.status = "processing"])
        /\ worker' = [worker EXCEPT ![w] = [Idle EXCEPT !.task = tasks[i].id, !.pc = "get"]]
    /\ resp' = NoResp
    /\ UNCHANGED <<geo, source, plan, created, provider, variant, files, tmp, nextId, now, crashes>>

\* the task a busy worker runs
TaskOf(w) == tasks[TaskIndex(tasks, worker[w].task)]

\* the task after its processor returned
Completed(t) == [t EXCEPT !.status = "completed"]

\* (faulty variant) one retry too many
Failed_OffByOne(t, err) ==
    [t EXCEPT !.attempts = t.attempts + 1,
              !.lastError = err,
              !.status = IF t.attempts + 1 <= t.maxAttempts THEN "pending" ELSE "failed"]

\* the task after one more failure of its processor
Failed(t, err) ==
    [t EXCEPT !.attempts = t.attempts + 1,
              !.lastError = err,
              !.status = IF t.attempts + 1 < t.maxAttempts THEN "pending" ELSE "failed"]

\* processPrintPhoto returns to the queue: on processor success
Returns(w) ==
    /\ tasks' = SetTask(tasks, TaskIndex(tasks, worker[w].task), Completed(TaskOf(w)))
    /\ worker' = [worker EXCEPT ![w] = Idle]

\* (faulty variant) the catch logs the error and returns
Throws_Swallowed(w, err) ==
    /\ tasks' = SetTask(tasks, TaskIndex(tasks, worker[w].task), Completed(TaskOf(w)))
    /\ worker' = [worker EXCEPT ![w] = Idle]

\* the catch of processPrintPhoto logs and rethrows to the queue: on processor failure
Throws(w, err) ==
    /\ tasks' = SetTask(tasks, TaskIndex(tasks, worker[w].task), Failed(TaskOf(w), err))
    /\ worker' = [worker EXCEPT ![w] = Idle]

\* processPrintPhoto moves on to its next stage
Goto(w, pc) ==
    /\ worker' = [worker EXCEPT ![w].pc = pc]
    /\ tasks' = tasks

(* --------------------------- processPrintPhoto ------------------------ *)

\* (faulty variant) the bytes of the original are not tested
GetOriginal_NoCheck(w) ==
    /\ worker[w].pc = "get"
    /\ Goto(w, "compose")
    /\ resp' = NoResp
    /\ UNCHANGED <<geo, source, plan, created, provider, variant, files, tmp, nextId, now, crashes>>

\* storageProvider.get(storageKey); a missing original is an error
GetOriginal(w) ==
    /\ worker[w].pc = "get"
    /\ IF TaskOf(w).storageKey \in files
       THEN Goto(w, "compose")
       ELSE Throws(w, "SourceNotFound")
    /\ resp' = NoResp
    /\ UNCHANGED <<geo, source, plan, created, provider, variant, files, tmp, nextId, now, crashes>>

\* where the pipeline goes once the composite exists: the EXIF copy runs only in the
\* reattaching build and only for an original that carries EXIF
AfterCompose(exif) == IF variant = "reattach" /\ exif THEN "writeProcessed" ELSE "store"

\* EXIF extraction, JPEG conversion, dimensions, rotation, crops, band, code, texts
Compose(w, ok, exif) ==
    /\ worker[w].pc = "compose"
    /\ IF ok THEN Goto(w, AfterCompose(exif)) ELSE Throws(w, "ComposeFailed")
    /\ resp' = NoResp
    /\ UNCHANGED <<geo, source, plan, created, provider, variant, files, tmp, nextId, now, crashes>>

\* path.join(tempDir, `processed_${Date.now()}.jpg`)
InputTempPath(t) == [kind |-> "processed", t |-> t]

\* path.join(tempDir, `original_${Date.now()}.jpg`)
OriginalTempPath(t) == [kind |-> "original", t |-> t]

\* an error inside the try block of the EXIF copy: the block has no catch, so the
\* error reaches the outer catch and the call throws
ReattachError(w, err) == Throws(w, err)

\* the finally of the EXIF copy is empty: the temp directory stays as it is
FinallyCleanup(w, t) == t

\* both temp paths are computed, then writeFile(inputTempPath, processedBuffer)
WriteProcessed(w, ok) ==
    /\ worker[w].pc = "writeProcessed"
    /\ IF ok
       THEN /\ tmp' = tmp \cup { InputTempPath(now) }
            /\ worker' = [worker EXCEPT ![w].pc = "writeOriginal",
                                        ![w].inputTempPath = InputTempPath(now),
                                        ![w].originalTempPath = OriginalTempPath(now)]
            /\ tasks' = tasks
       ELSE /\ tmp' = FinallyCleanup(w, tmp)
            /\ ReattachError(w, "TempWriteFailed")
    /\ resp' = NoResp
    /\ UNCHANGED <<geo, source, plan, created, provider, variant, files, nextId, now, crashes>>

\* writeFile(originalTempPath, originalBuffer)
WriteOriginal(w, ok) ==
    /\ worker[w].pc = "writeOriginal"
    /\ IF ok
       THEN /\ tmp' = tmp \cup { worker[w].originalTempPath }
            /\ Goto(w, "exiftool")
       ELSE /\ tmp' = FinallyCleanup(w, tmp)
            /\ ReattachError(w, "TempWriteFailed")
    /\ resp' = NoResp
    /\ UNCHANGED <<geo, source, plan, created, provider, variant, files, nextId, now, crashes>>

\* exiftool.write(inputTempPath, {TagsFromFile: originalTempPath}); it needs both files
ExiftoolWrite(w, ok) ==
    /\ worker[w].pc = "exiftool"
    /\ IF ok /\ worker[w].inputTempPath \in tmp /\ worker[w].originalTempPath \in tmp
       THEN /\ tmp' = tmp
            /\ Goto(w, "readback")
       ELSE /\ tmp' = FinallyCleanup(w, tmp)
            /\ ReattachError(w, "ExternalToolFailed")
    /\ resp' = NoResp
    /\ UNCHANGED <<geo, source, plan, created, provider, variant, files, nextId, now, crashes>>

\* readFile(inputTempPath)
ReadBack(w, ok) ==
    /\ worker[w].pc = "readback"
    /\ IF ok /\ worker[w].inputTempPath \in tmp
       THEN /\ tmp' = tmp
            /\ Goto(w, "unlinkInput")
       ELSE /\ tmp' = FinallyCleanup(w, tmp)
            /\ ReattachError(w, "ReadBackFailed")
    /\ resp' = NoResp
    /\ UNCHANGED <<geo, source, plan, created, provider, variant, files, nextId, now, crashes>>

\* unlink(inputTempPath)
UnlinkInput(w, ok) ==
    /\ worker[w].pc = "unlinkInput"
    /\ IF ok /\ worker[w].inputTempPath \in tmp
       THEN /\ tmp' = tmp \ { worker[w].inputTempPath }
            /\ Goto(w, "unlinkOriginal")
       ELSE /\ tmp' = FinallyCleanup(w, tmp)
            /\ ReattachError(w, "UnlinkFailed")
    /\ resp' = NoResp
    /\ UNCHANGED <<geo, source, plan, created, provider, variant, files, nextId, now, crashes>>

\* unlink(originalTempPath)
UnlinkOriginal(w, ok) ==
    /\ worker[w].pc = "unlinkOriginal"
    /\ IF ok /\ worker[w].originalTempPath \in tmp
       THEN /\ tmp' = tmp \ { worker[w].originalTempPath }
            /\ Goto(w, "store")
       ELSE /\ tmp' = FinallyCleanup(w, tmp)
            /\ ReattachError(w, "UnlinkFailed")
    /\ resp' = NoResp
    /\ UNCHANGED <<geo, source, plan, created, provider, variant, files, nextId, now, crashes>>

\* (faulty variant) every run writes a key of its own
PrintKeyOf_PerRun(task, storageKey) == PrintKey(storageKey) \o <<".", ToString(task)>>

\* the key a run writes: it depends on the storageKey alone
PrintKeyOf(task, storageKey) == PrintKey(storageKey)

\* storageProvider.create(printKey, finalImage, 'image/jpeg'), called by a task's run
Create(task, storageKey) ==
    [task |-> task, source |-> storageKey, key |-> PrintKeyOf(task, storageKey),
     contentType |-> "image/jpeg"]

\* outcomes of the last stage: mkdir is attempted with the local provider only
StoreOutcomes == IF provider = "local" THEN {"ok", "mkdir", "create"} ELSE {"ok", "create"}

\* fs.mkdir(<basePath>/print, {recursive}) then storageProvider.create(printKey, ...)
Store(w, outcome) ==
    /\ worker[w].pc = "store"
    /\ outcome \in StoreOutcomes
    /\ IF outcome = "ok"
       THEN /\ files' = files \cup { Create(worker[w].task, TaskOf(w).storageKey).key }
            /\ created' = created \cup { Create(worker[w].task, TaskOf(w).storageKey) }
            /\ Returns(w)
       ELSE /\ files' = files
            /\ created' = created
            /\ Throws(w, IF outcome = "mkdir" THEN "MkdirFailed" ELSE "StorageWriteFailed")
    /\ resp' = NoResp
    /\ UNCHANGED <<geo, source, plan, provider, variant, tmp, nextId, now, crashes>>

(* ------------- processPrintPhoto: geometry, colour, texts ------------- *)

Abs(x) == IF x < 0 THEN -x ELSE x

Max(a, b) == IF a >= b THEN a ELSE b

\* Math.round(n / d) for d > 0: the nearest integer, a half goes up
Round(n, d) == (2 * n + d) \div (2 * d)

\* Math.floor(n / d) for d > 0
Floor(n, d) == n \div d

\* (faulty variant) no source is taken for a portrait
IsPortrait_Never(width, height) == FALSE

\* isPortrait = width / height < 1
IsPortrait(width, height) == width < height

\* Math.abs(width / height - 3 / 2) > 0.001
DiffersFromTarget(width, height) == 1000 * Abs(2 * width - 3 * height) > 2 * height

\* Math.round(height * targetPrintRatio)
TargetWidth(height) == Round(3 * height, 2)

\* (faulty variant) the operands of the difference are exchanged
LeftOffset_Reversed(width, targetWidth) == Round(targetWidth - width, 2)

\* Math.round((width - targetWidth) / 2)
LeftOffset(width, targetWidth) == Round(width - targetWidth, 2)

\* (faulty variant) the target height is cut off, not rounded
TargetHeight_Floor(width) == Floor(2 * width, 3)

\* Math.round(width / targetPrintRatio)
TargetHeight(width) == Round(2 * width, 3)

\* (faulty variant) the crop starts at the top edge
TopOffset_Zero(height, targetHeight) == 0

\* Math.round((height - targetHeight) / 2)
TopOffset(height, targetHeight) == Round(height - targetHeight, 2)

\* Math.round(width * 3 / 4)
TargetTotalHeight(width) == Round(3 * width, 4)

MinWatermarkHeight == 50

\* (faulty variant) one unit is reserved for the band
MaxImageHeight_OneUnit(width) == Floor(3 * width, 4) - 1

\* Math.floor(width * 3 / 4) - minWatermarkHeight
MaxImageHeight(width) == Floor(3 * width, 4) - MinWatermarkHeight

\* (faulty variant) the total height is cut off, not rounded
FinalTargetHeight_Floor(width) == Floor(3 * width, 4)

\* Math.round(width * 3 / 4), computed again after the height adjustment
FinalTargetHeight(width) == Round(3 * width, 4)

\* Math.max(8, Math.round(finalWatermarkHeight / 4))
FontSize(finalWatermarkHeight) == Max(8, Round(finalWatermarkHeight, 4))

\* (faulty variant) every composite is rotated at the end
RotatesBack_Always(isPortrait) == TRUE

\* if (isPortrait) finalImage = sharp(finalImage).rotate(90)
RotatesBack(isPortrait) == isPortrait

\* the angle of the first rotation, 0 when there is none
RotateAngle(isPortrait) == IF isPortrait THEN -90 ELSE 0

\* the angle of the rotation of the finished composite, 0 when there is none
RotateBackAngle(isPortrait) == IF RotatesBack(isPortrait) THEN 90 ELSE 0

\* width and height of an image after rotate(angle)
Rotated(angle, width, height) ==
    IF angle \in {-90, 90}
    THEN [width |-> height, height |-> width]
    ELSE [width |-> width, height |-> height]

QrMargin == 20

\* qrCodeSize = finalWatermarkHeight - 20
QrCodeSize(finalWatermarkHeight) == finalWatermarkHeight - QrMargin

\* no extract() was requested
NoExtract == [left |-> 0, top |-> 0, width |-> 0, height |-> 0]

\* processedImage.extract({left, top, width, height})
Extract(left, top, width, height) ==
    [left |-> left, top |-> top, width |-> width, height |-> height]

\* width and height after the rotation of a portrait image
Oriented(width, height) ==
    IF IsPortrait(width, height)
    THEN [rotated |-> TRUE, width |-> height, height |-> width]
    ELSE [rotated |-> FALSE, width |-> width, height |-> height]

\* the crop to 3:2: the width of an image that is too wide, else the height
Crop32(width, height) ==
    IF ~DiffersFromTarget(width, height) THEN
        [cropped |-> "none", extract |-> NoExtract, width |-> width, height |-> height]
    ELSE IF 2 * width > 3 * height THEN
        [cropped |-> "width",
         extract |-> Extract(LeftOffset(width, TargetWidth(height)), 0,
                             TargetWidth(height), height),
         width |-> TargetWidth(height), height |-> height]
    ELSE
        [cropped |-> "height",
         extract |-> Extract(0, TopOffset(height, TargetHeight(width)),
                             width, TargetHeight(width)),
         width |-> width, height |-> TargetHeight(width)]

\* the height adjustment made when the band would not be positive
AdjustHeight(width, height) ==
    IF /\ TargetTotalHeight(width) - height <= 0
       /\ MaxImageHeight(width) > 0
       /\ MaxImageHeight(width) < height
    THEN [adjusted |-> TRUE,
          extract |-> Extract(0, Round(height - MaxImageHeight(width), 2),
                              width, MaxImageHeight(width)),
          height |-> MaxImageHeight(width)]
    ELSE [adjusted |-> FALSE, extract |-> NoExtract, height |-> height]

\* everything processPrintPhoto derives from metadata.width and metadata.height
GeometryPlan(width, height) ==
    LET o == Oriented(width, height)
        c == Crop32(o.width, o.height)
        a == AdjustHeight(c.width, c.height)
    IN  [pc |-> "planned",
         rotated |-> o.rotated,
         workWidth |-> o.width,
         workHeight |-> o.height,
         cropped |-> c.cropped,
         crop |-> c.extract,
         croppedHeight |-> c.height,
         watermarkHeight |-> TargetTotalHeight(c.width) - c.height,
         adjusted |-> a.adjusted,
         adjust |-> a.extract,
         contentWidth |-> c.width,
         contentHeight |-> a.height,
         bandHeight |-> FinalTargetHeight(c.width) - a.height,
         mean |-> <<0, 0, 0>>,
         foregroundColor |-> "none",
         fontSize |-> 0,
         qrCodeSize |-> 0,
         rotateAngle |-> RotateAngle(o.rotated),
         rotateBackAngle |-> 0,
         output |-> [width |-> 0, height |-> 0]]

\* 0.2126 * r + 0.7152 * g + 0.0722 * b with r = R / 255 ..., times 255 * 10000
RelativeLuminance(mean) == 2126 * mean[1] + 7152 * mean[2] + 722 * mean[3]

\* (faulty variant) a luminance of exactly one half counts as bright
ForegroundColor_AtLeast(mean) ==
    IF RelativeLuminance(mean) >= 5000 * 255 THEN "black" ELSE "white"

\* relativeLuminance > 0.5 ? 'black' : 'white'
ForegroundColor(mean) ==
    IF RelativeLuminance(mean) > 5000 * 255 THEN "black" ELSE "white"

\* dimensions, rotation, the crop to 3:2, the band height
PlanGeometry ==
    /\ source # NoSource
    /\ plan.pc = "none"
    /\ plan' = GeometryPlan(source.width, source.height)
    /\ UNCHANGED <<geo, source, pipeline>>

\* the channel means of the content and the foreground colour chosen from them
AnalyzeColor(r, g, b) ==
    /\ plan.pc = "planned"
    /\ plan' = [plan EXCEPT !.pc = "coloured",
                            !.mean = <<r, g, b>>,
                            !.foregroundColor = ForegroundColor(<<r, g, b>>)]
    /\ UNCHANGED <<geo, source, pipeline>>

\* the texts of the band and their font size
PrepareTexts ==
    /\ plan.pc = "coloured"
    /\ plan' = [plan EXCEPT !.pc = "texts", !.fontSize = FontSize(plan.bandHeight)]
    /\ UNCHANGED <<geo, source, pipeline>>

\* qrcode.toBuffer(qrCodeContent, {width: qrCodeSize, ...})
GenerateCode ==
    /\ plan.pc = "texts"
    /\ plan' = [plan EXCEPT !.pc = "code", !.qrCodeSize = QrCodeSize(plan.bandHeight)]
    /\ UNCHANGED <<geo, source, pipeline>>

\* the composite of content and band, rotated back when the source was a portrait
FinishComposite ==
    /\ plan.pc = "code"
    /\ plan' = [plan EXCEPT
            !.pc = "done",
            !.rotateBackAngle = RotateBackAngle(plan.rotated),
            !.output = Rotated(RotateBackAngle(plan.rotated), plan.contentWidth,
                               plan.contentHeight + plan.bandHeight)]
    /\ UNCHANGED <<geo, source, pipeline>>

(* --------------------------- reverse geocoding ------------------------ *)

\* rateLimitMs of the provider classes
RateLimitMs(service) ==
    CASE service = "nominatim" -> 1000
      [] service = "mapbox" -> 100
      [] service = "amap" -> 100

\* !gpsLatitude: undefined and 0 are both falsy
Falsy(c) == ~c.given \/ c.value = 0

\* Math.abs(gpsLatitude) > 90 || Math.abs(gpsLongitude) > 180
OutOfRange(lat, lon) == Abs(lat.value) > 90 \/ Abs(lon.value) > 180

\* provider || (await createGeocodingProvider()): the instance passed, else a new one
ProviderFor(c, passed) == IF passed THEN "shared" ELSE c

\* lastRequestTime of the instance a call starts with: a new instance starts at 0
LastAtStart(c, passed) ==
    IF ProviderFor(c, passed) = c THEN 0 ELSE geo.last[ProviderFor(c, passed)]

\* extractLocationFromGPS up to the call of geocodingProvider.reverseGeocode
Begin(c, lat, lon, passed) ==
    /\ geo.call[c].pc \in {"idle", "done"}
    /\ Cardinality(geo.sent) < MaxRequests
    /\ geo' =
        IF Falsy(lat) \/ Falsy(lon) \/ OutOfRange(lat, lon) THEN
            [geo EXCEPT !.call[c] = [NoGeoCall EXCEPT !.pc = "done", !.lat = lat, !.lon = lon,
                                                     !.result = "null"]]
        ELSE
            [geo EXCEPT !.call[c] = [NoGeoCall EXCEPT !.pc = "rate", !.lat = lat, !.lon = lon,
                                                     !.inst = ProviderFor(c, passed),
                                                     !.called = TRUE],
                        !.last[ProviderFor(c, passed)] = LastAtStart(c, passed)]
    /\ UNCHANGED <<source, plan, pipeline>>

\* the request leaves: lastRequestTime = Date.now(), then fetch(url)
Send(g, c) ==
    [g EXCEPT !.last[g.call[c].inst] = g.now,
              !.sent = g.sent \cup { [service |-> g.service, time |-> g.now, call |-> c] },
              !.call[c].pc = "fetch"]

\* applyRateLimit: no wait when the last request is rateLimitMs old, else a timer
\* for the rest of the interval
ApplyRateLimit(c) ==
    /\ geo.call[c].pc = "rate"
    /\ LET timeSinceLastRequest == geo.now - geo.last[geo.call[c].inst]
       IN  geo' =
            IF timeSinceLastRequest < RateLimitMs(geo.service)
            THEN [geo EXCEPT !.call[c].pc = "sleep",
                             !.call[c].wake = geo.now + RateLimitMs(geo.service)
                                                - timeSinceLastRequest]
            ELSE Send(geo, c)
    /\ UNCHANGED <<source, plan, pipeline>>

\* the timer of applyRateLimit fires
Wake(c) ==
    /\ geo.call[c].pc = "sleep"
    /\ geo.now >= geo.call[c].wake
    /\ geo' = Send(geo, c)
    /\ UNCHANGED <<source, plan, pipeline>>

\* reverseGeocode settles and extractLocationFromGPS returns: a provider's error is
\* caught and gives null
Settle(c, outcome) ==
    /\ geo.call[c].pc = "fetch"
    /\ geo' = [geo EXCEPT !.call[c].pc = "done",
                          !.call[c].result = IF outcome = "location" THEN "location" ELSE "null"]
    /\ UNCHANGED <<source, plan, pipeline>>

\* time passes
Pass ==
    /\ geo.now + GeoStep <= MaxGeoTime
    /\ geo' = [geo EXCEPT !.now = geo.now + GeoStep]
    /\ UNCHANGED <<source, plan, pipeline>>

(* ------------------------ queue: reconciliation ----------------------- *)

\* (faulty variant) the sweep never finds a task stale
Stale_Never(ts, i) == FALSE

\* a processing task no running worker holds (its worker went down with the host)
Stale(ts, i) ==
    /\ ts[i].status = "processing"
    /\ \A w \in Workers : worker[w].task # ts[i].id

\* the reconciliation sweep
Sweep ==
    /\ \E i \in 1..Len(tasks) : Stale(tasks, i)
    /\ tasks' = [i \in 1..Len(tasks) |->
                    IF Stale(tasks, i) THEN [tasks[i] EXCEPT !.status = "pending"]
                    ELSE tasks[i]]
    /\ resp' = NoResp
    /\ UNCHANGED <<geo, source, plan, created, provider, variant, files, tmp, nextId, now, worker, crashes>>

\* the host goes down and comes back: workers restart, store and files persist
HostShutdown ==
    /\ crashes < MaxCrashes
    /\ \E w \in Workers : worker[w].pc # "idle"
    /\ worker' = [w \in Workers |-> Idle]
    /\ crashes' = crashes + 1
    /\ resp' = NoResp
    /\ UNCHANGED <<geo, source, plan, created, provider, variant, files, tmp, tasks, nextId, now>>

(* --------------------------- specification ---------------------------- *)

\* the state after start-up: nothing queued, no worker busy, the temp directory
\* empty; the configuration and the storage contents are what the host was given
InitPipeline(providers, variants, storages) ==
    /\ provider \in providers
    /\ variant \in variants
    /\ files \in storages
    /\ tmp = {}
    /\ tasks = <<>>
    /\ nextId = 1
    /\ now = 0
    /\ worker = [w \in Workers |-> Idle]
    /\ crashes = 0
    /\ resp = NoResp
    /\ created = {}

\* reverse geocoding at rest, with the service the settings select
GeoAtRest(service) ==
    [now |-> GeoStart,
     service |-> service,
     last |-> [i \in Instances |-> 0],
     call |-> [c \in GeoCalls |-> NoGeoCall],
     sent |-> {}]

\* no call is followed through its computations
InitWith(providers, variants, storages) ==
    /\ InitPipeline(providers, variants, storages)
    /\ geo = GeoAtRest("nominatim")
    /\ source = NoSource
    /\ plan = NoPlan

\* every original is in storage, no print file is
Originals == { OriginalFilePath(n) : n \in ValidNames }

\* print files at the path the route reads
RoutePrints == { PrintFilePath(n) : n \in ValidNames }

Init == InitWith({"local", "remote"}, {"reattach", "plain"}, SUBSET RoutePrints)

\* the serving route and what changes the files it looks at
NextRoute ==
    \/ \E n \in RequestNames : RequestPlain(n)
    \/ \E n \in RequestNames : RequestEnqueue(n)
    \/ \E n \in ValidNames : Upload(n)
    \/ \E n \in ValidNames : DeleteSource(n)

\* the upload trigger
NextUpload ==
    \/ \E n \in ValidNames : Upload(n)
    \/ \E n \in ValidNames, p \in UploadPriorities, m \in UploadMaxAttempts :
          EnqueueOnUpload(n, p, m)

\* the queue's own steps
NextDispatch ==
    \/ \E w \in Workers : Dispatch(w)

\* the host going down, and the sweep that repairs the store afterwards
NextRecover ==
    \/ Sweep
    \/ HostShutdown

\* the stages every build of processPrintPhoto has
NextProcess ==
    \/ \E w \in Workers : GetOriginal(w)
    \/ \E w \in Workers, ok \in BOOLEAN, exif \in BOOLEAN : Compose(w, ok, exif)
    \/ \E w \in Workers, o \in {"ok", "mkdir", "create"} : Store(w, o)

\* the stages of the EXIF copy
NextReattach ==
    \/ \E w \in Workers, ok \in BOOLEAN : WriteProcessed(w, ok)
    \/ \E w \in Workers, ok \in BOOLEAN : WriteOriginal(w, ok)
    \/ \E w \in Workers, ok \in BOOLEAN : ExiftoolWrite(w, ok)
    \/ \E w \in Workers, ok \in BOOLEAN : ReadBack(w, ok)
    \/ \E w \in Workers, ok \in BOOLEAN : UnlinkInput(w, ok)
    \/ \E w \in Workers, ok \in BOOLEAN : UnlinkOriginal(w, ok)

\* the whole system
Next ==
    \/ NextRoute
    \/ NextUpload
    \/ Tick
    \/ NextDispatch
    \/ NextRecover
    \/ NextProcess
    \/ NextReattach

Spec == Init /\ [][Next]_vars

\* The whole system is too large to enumerate; each property is checked on the
\* part of the system that decides it.

\* the serving route alone
SpecRoute == Init /\ [][NextRoute]_vars

\* the serving route feeding the queue, plain build on local storage
InitServe == InitWith({"local"}, {"plain"}, {{}})

NextServe ==
    \/ \E n \in ValidNames : RequestEnqueue(n)
    \/ \E n \in ValidNames : Upload(n)
    \/ NextDispatch
    \/ NextProcess

SpecServe == InitServe /\ [][NextServe]_vars

\* the queue under host shutdowns, fed by the upload trigger
InitQueue == InitWith({"local"}, {"plain"}, {{}})

NextQueue ==
    \/ NextUpload
    \/ NextDispatch
    \/ NextRecover
    \/ NextProcess

SpecQueue == InitQueue /\ [][NextQueue]_vars

\* the queue while the clock advances, fed by the upload trigger
NextOrder ==
    \/ \E n \in ValidNames, p \in UploadPriorities : EnqueueOnUpload(n, p, 1)
    \/ Tick
    \/ NextDispatch
    \/ NextProcess

InitStored == InitWith({"local"}, {"plain"}, {Originals})

SpecOrder == InitStored /\ [][NextOrder]_vars

\* what one worker does
WorkerStep(w) ==
    \/ Dispatch(w)
    \/ GetOriginal(w)
    \/ \E ok \in BOOLEAN, exif \in BOOLEAN : Compose(w, ok, exif)
    \/ \E o \in {"ok", "mkdir", "create"} : Store(w, o)

\* the queue under host shutdowns with every original in storage, when every
\* worker and the sweep keep running
NextSweep ==
    \/ \E n \in ValidNames, m \in UploadMaxAttempts : EnqueueOnUpload(n, RoutePriority, m)
    \/ NextDispatch
    \/ NextRecover
    \/ NextProcess

SpecSweepFair ==
    /\ InitStored
    /\ [][NextSweep]_vars
    /\ \A w \in Workers : WF_vars(WorkerStep(w))
    /\ WF_vars(Sweep)

\* processPrintPhoto with the EXIF copy, fed by the upload trigger
InitProc == InitWith({"local", "remote"}, {"reattach"}, {Originals})

NextProc ==
    \/ \E n \in ValidNames : EnqueueOnUpload(n, RoutePriority, 1)
    \/ \E n \in ValidNames : DeleteSource(n)
    \/ Tick
    \/ NextDispatch
    \/ NextProcess
    \/ NextReattach

SpecProc == InitProc /\ [][NextProc]_vars

\* both builds of processPrintPhoto on either provider, while originals get deleted
InitStore == InitWith({"local", "remote"}, {"reattach", "plain"}, {Originals})

NextStore ==
    \/ \E n \in ValidNames : EnqueueOnUpload(n, RoutePriority, 1)
    \/ \E n \in ValidNames : DeleteSource(n)
    \/ NextDispatch
    \/ NextProcess
    \/ NextReattach

SpecStore == InitStore /\ [][NextStore]_vars

\* one call of processPrintPhoto followed through its computations, for every source
\* size and every channel mean
InitCompose ==
    /\ InitPipeline({"local"}, {"plain"}, {Originals})
    /\ source \in [width : Dims, height : Dims]
    /\ plan = NoPlan
    /\ geo = GeoAtRest("nominatim")

NextCompose ==
    \/ PlanGeometry
    \/ \E r \in Channels, g \in Channels, b \in Channels : AnalyzeColor(r, g, b)
    \/ PrepareTexts
    \/ GenerateCode
    \/ FinishComposite

SpecCompose == InitCompose /\ [][NextCompose]_vars

\* paths under photos/ the upload pipeline stores originals at: the same file name
\* directly under photos/ and in a directory below it
UploadPaths == { <<"a">>, <<"x", "/", "a">> }

\* repeated runs over originals that share a file name
InitArtifacts ==
    InitWith({"local"}, {"plain"}, {{ OriginalFilePath(n) : n \in UploadPaths }})

NextArtifacts ==
    \/ \E n \in UploadPaths : EnqueueOnUpload(n, RoutePriority, 1)
    \/ NextDispatch
    \/ NextProcess

SpecArtifacts == InitArtifacts /\ [][NextArtifacts]_vars

\* reverse geocoding with the service the settings select
InitGeocode ==
    /\ InitPipeline({"local"}, {"plain"}, {Originals})
    /\ geo \in { GeoAtRest(s) : s \in {"nominatim", "mapbox", "amap"} }
    /\ source = NoSource
    /\ plan = NoPlan

NextGeocode ==
    \/ \E c \in GeoCalls, lat \in Latitudes, lon \in Longitudes, passed \in BOOLEAN :
          Begin(c, lat, lon, passed)
    \/ \E c \in GeoCalls : ApplyRateLimit(c)
    \/ \E c \in GeoCalls : Wake(c)
    \/ \E c \in GeoCalls, o \in {"location", "null", "throw"} : Settle(c, o)
    \/ Pass

SpecGeocode == InitGeocode /\ [][NextGeocode]_vars

(* ======================= the serving route (SpecRoute) ================= *)

Accepted(imageName) == imageName # <<>> /\ ~InvalidName(imageName)

ProcessingMessage == "Image is being processed. Please try again later."

\* C1: in the enqueueing handler on local storage, a request for an absent artifact
\* whose source exists is answered 'being processed, retry later', and 'Image not
\* found' is answered only when the source is absent.
C1_ProcessingDistinctFromNotFound ==
    (resp.route = "enqueue" /\ Accepted(resp.name) /\ provider = "local") =>
        /\ (PrintFilePath(resp.name) \notin files /\ OriginalFilePath(resp.name) \in files)
               => resp.message = ProcessingMessage
        /\ resp.message = "Image not found" => OriginalFilePath(resp.name) \notin files

\* C2 as stated: for every accepted name the enqueueing handler calls addTask with
\* type 'print-photo' and storageKey 'photos/<imageName>' exactly when the artifact
\* is absent and the source exists.
C2_EnqueueIffMiss ==
    (resp.route = "enqueue" /\ Accepted(resp.name)) =>
        /\ resp.addTask # NoCall <=>
              (PrintFilePath(resp.name) \notin files /\ OriginalFilePath(resp.name) \in files)
        /\ resp.addTask # NoCall =>
              resp.addTask = [type |-> "print-photo",
                              storageKey |-> <<"photos", "/">> \o resp.name]

\* C2 amended: the same, for the local storage provider; with any other provider
\* the handler answers 404 and calls nothing.
C2_EnqueueIffMissLocal ==
    (resp.route = "enqueue" /\ Accepted(resp.name)) =>
        /\ resp.addTask # NoCall <=>
              /\ provider = "local"
              /\ PrintFilePath(resp.name) \notin files
              /\ OriginalFilePath(resp.name) \in files
        /\ resp.addTask # NoCall =>
              resp.addTask = [type |-> "print-photo",
                              storageKey |-> <<"photos", "/">> \o resp.name]

\* a cache miss with the source present has just enqueued its task
C2_Witness ==
    /\ resp.route = "enqueue"
    /\ resp.addTask = Call(<<"photos", "/", "a">>)
    /\ \E i \in 1..Len(tasks) : tasks[i].storageKey = <<"photos", "/", "a">>
    /\ PrintFilePath(<<"b">>) \in files

(* ============================ the job queue ============================ *)

Ids(ts) == { ts[i].id : i \in 1..Len(ts) }

ById(ts, id) == ts[TaskIndex(ts, id)]

LiveFor(ts, key) == { i \in 1..Len(ts) : Live(ts[i]) /\ ts[i].storageKey = key }

\* C3: at every moment there is at most one live task per storageKey, whatever
\* sequence of addTask calls the serving route has issued.
C3_OneLivePerKey ==
    \A n \in ValidNames : Cardinality(LiveFor(tasks, RouteStorageKey(n))) <= 1

\* the route has just called addTask for a key whose task a worker is running
C3_Witness ==
    /\ resp.addTask = Call(<<"photos", "/", "a">>)
    /\ \E w \in Workers :
          /\ worker[w].pc = "compose"
          /\ TaskOf(w).storageKey = <<"photos", "/", "a">>
    /\ Cardinality(LiveFor(tasks, <<"photos", "/", "a">>)) = 1
    /\ \E i \in 1..Len(tasks) : tasks[i].status = "completed"

Busy(w) == worker[w].pc # "idle"

\* C4: no task is held by two workers at once: a worker that runs a task holds it
\* in processing, and no other worker holds the same task.
C4_NoDoubleClaim ==
    \A w \in Workers :
        Busy(w) =>
            /\ worker[w].task \in Ids(tasks)
            /\ TaskOf(w).status = "processing"
            /\ \A v \in Workers \ {w} : worker[v].task # worker[w].task

\* both workers run a task at the same moment
C4_Witness ==
    /\ \A w \in Workers : Busy(w)
    /\ Cardinality({ i \in 1..Len(tasks) : tasks[i].status = "processing" }) = 2

\* C5: a task that failed maxAttempts times is failed, a failed task is never
\* changed again (so never dispatched), and the tasks the serving route enqueues
\* carry maxAttempts 3.
C5_FailedIsAbsorbing ==
    /\ [](\A i \in 1..Len(tasks) :
            /\ tasks[i].maxAttempts = 3
            /\ tasks[i].attempts >= tasks[i].maxAttempts => tasks[i].status = "failed"
            /\ tasks[i].status = "failed" => tasks[i].attempts = tasks[i].maxAttempts)
    /\ [][\A id \in Ids(tasks) :
            ById(tasks, id).status = "failed" =>
                /\ id \in Ids(tasks')
                /\ ById(tasks', id) = ById(tasks, id)
                /\ \A w \in Workers : worker'[w].task # id]_vars

\* a task of the route has failed three times
C5_Witness ==
    \E i \in 1..Len(tasks) :
        /\ tasks[i].status = "failed"
        /\ tasks[i].attempts = 3
        /\ tasks[i].priority = RoutePriority

\* one step of one task, as the claim allows it
C6_Step(t, u) ==
    \/ u = t
    \/ /\ t.status = "pending"
       /\ u = [t EXCEPT !.status = "processing"]
    \/ /\ t.status = "processing"
       /\ u = [t EXCEPT !.status = "completed"]
    \/ /\ t.status = "processing"
       /\ u = [t EXCEPT !.status = "pending"]
    \/ /\ t.status = "processing"
       /\ u.attempts = t.attempts + 1
       /\ u.lastError # "none"
       /\ u.status = IF u.attempts < u.maxAttempts THEN "pending" ELSE "failed"
       /\ u = [t EXCEPT !.attempts = u.attempts, !.lastError = u.lastError,
                        !.status = u.status]

\* C6: attempts never exceeds maxAttempts, and a task only moves pending ->
\* processing -> {completed, pending, failed}; a failure adds one to attempts,
\* records lastError, and leads to pending when attempts < maxAttempts, else to failed.
C6_RetryPolicy ==
    /\ [](\A i \in 1..Len(tasks) : tasks[i].attempts <= tasks[i].maxAttempts)
    /\ [][\A id \in Ids(tasks) :
            /\ id \in Ids(tasks')
            /\ C6_Step(ById(tasks, id), ById(tasks', id))]_vars

\* a task waits for its retry with its error recorded while another one has failed
C6_Witness ==
    /\ \E i \in 1..Len(tasks) :
          /\ tasks[i].status = "pending"
          /\ tasks[i].attempts = 1
          /\ tasks[i].lastError = "StorageWriteFailed"
    /\ \E i \in 1..Len(tasks) :
          /\ tasks[i].status = "failed"
          /\ tasks[i].attempts = 2

\* t is dispatched before u: higher priority, then earlier createdAt, then inserted first
Before(t, u) ==
    \/ t.priority > u.priority
    \/ t.priority = u.priority /\ t.createdAt < u.createdAt
    \/ t.priority = u.priority /\ t.createdAt = u.createdAt /\ t.id <= u.id

\* C7: every dispatch takes, among the tasks pending at that moment, the one of
\* highest priority, then earliest createdAt, then first inserted.
C7_DispatchOrder ==
    [][\A w \in Workers :
          (worker[w].pc = "idle" /\ worker'[w].pc = "get") =>
              \A i \in Pending(tasks) : Before(ById(tasks, worker'[w].task), tasks[i])]_vars

\* a task inserted second was dispatched first: the older one, of lower priority,
\* has never been dispatched
C7_Witness ==
    /\ \E w \in Workers : Busy(w) /\ worker[w].task = 2 /\ TaskOf(w).priority = 9
    /\ \E i \in 1..Len(tasks) :
          /\ tasks[i].id = 1
          /\ tasks[i].priority = 1
          /\ tasks[i].status = "pending"
          /\ tasks[i].attempts = 0

Terminal(id) == id \in Ids(tasks) /\ ById(tasks, id).status \in {"completed", "failed"}

\* C8: with every worker and the sweep running, every enqueued task eventually
\* reaches completed or failed, also when a host shutdown left it in processing.
C8_EveryTaskEnds == \A id \in 1..MaxTasks : (id \in Ids(tasks)) ~> Terminal(id)

\* the only task was in processing when the host went down, and has completed since
C8_Witness ==
    /\ crashes >= 1
    /\ Len(tasks) = 1
    /\ tasks[1].status = "completed"

(* ========================== processPrintPhoto ========================== *)

InReattach(w) ==
    worker[w].pc \in {"writeOriginal", "exiftool", "readback", "unlinkInput", "unlinkOriginal"}

\* C9: a failure of the metadata copy (writing the temp files, the exiftool write)
\* never makes the task fail.
C9_ReattachFailureTolerated ==
    \A i \in 1..Len(tasks) :
        tasks[i].lastError \notin {"TempWriteFailed", "ExternalToolFailed"}

\* C10: when no call of processPrintPhoto is inside the metadata copy, no temp file
\* is left.
C10_TempFilesDeleted ==
    (\A w \in Workers : ~InReattach(w)) => tmp = {}

\* C11: two calls of processPrintPhoto that are inside the metadata copy at the same
\* time never hold the same temp path, also when both computed their paths within
\* the same clock millisecond.
C11_TempPathsPrivate ==
    \A w \in Workers : \A v \in Workers \ {w} :
        (InReattach(w) /\ InReattach(v)) =>
            /\ worker[w].inputTempPath # worker[v].inputTempPath
            /\ worker[w].originalTempPath # worker[v].originalTempPath

\* a call of processPrintPhoto ends in this step
Ends(w) == Busy(w) /\ worker'[w] = Idle

\* the call that ends in this step returns / throws
EndsOk(w) == Ends(w) /\ ById(tasks', worker[w].task).status = "completed"
EndsFailed(w) == Ends(w) /\ ById(tasks', worker[w].task).attempts = TaskOf(w).attempts + 1

\* the artifact key of a source key, 'print/' followed by the file name
ArtifactKey(storageKey) == <<"print", "/">> \o Basename(storageKey)

\* C12: a call that succeeds writes its artifact key in its last step and a call
\* that fails writes nothing; no step of a call writes or removes any other key.
C12_OneFinalWrite ==
    [][/\ \A k \in files' \ files :
            \E w \in Workers :
                /\ EndsOk(w)
                /\ worker[w].pc = "store"
                /\ k = ArtifactKey(TaskOf(w).storageKey)
       /\ \A w \in Workers :
            /\ EndsOk(w) => ArtifactKey(TaskOf(w).storageKey) \in files'
            /\ EndsFailed(w) => files' = files
            /\ (Busy(w) /\ worker'[w] # worker[w]) => files \subseteq files']_vars

\* one call has stored its artifact, another failed in the storage write and left
\* nothing
C12_Witness ==
    /\ \E i \in 1..Len(tasks) :
          /\ tasks[i].status = "completed"
          /\ tasks[i].storageKey = <<"photos", "/", "a">>
    /\ \E i \in 1..Len(tasks) :
          /\ tasks[i].lastError = "StorageWriteFailed"
          /\ tasks[i].storageKey = <<"photos", "/", "b">>
    /\ files = Originals \cup { <<"print", "/", "a">> }

\* C13: a call whose storage.get finds no original ends right there with the
\* source-not-found error: no later stage runs, storage and the temp directory are
\* left as they were.
C13_SourceNotFoundFirst ==
    [][\A w \in Workers :
          (/\ worker[w].pc = "get"
           /\ TaskOf(w).storageKey \notin files
           /\ worker'[w] # worker[w]) =>
              /\ EndsFailed(w)
              /\ ById(tasks', worker[w].task).lastError = "SourceNotFound"
              /\ files' = files
              /\ tmp' = tmp]_vars

\* the original of a queued task was deleted and its call failed on the fetch
C13_Witness ==
    /\ \E i \in 1..Len(tasks) :
          /\ tasks[i].lastError = "SourceNotFound"
          /\ tasks[i].storageKey = <<"photos", "/", "a">>
          /\ tasks[i].status = "failed"
    /\ files = { <<"photos", "/", "b">> }
    /\ tmp = {}

\* the errors a stage of processPrintPhoto raises
StageErrors(pc) ==
    CASE pc = "get" -> {"SourceNotFound"}
      [] pc = "compose" -> {"ComposeFailed"}
      [] pc = "store" -> {"MkdirFailed", "StorageWriteFailed"}
      [] pc \in {"writeProcessed", "writeOriginal"} -> {"TempWriteFailed"}
      [] pc = "exiftool" -> {"ExternalToolFailed"}
      [] pc = "readback" -> {"ReadBackFailed"}
      [] pc \in {"unlinkInput", "unlinkOriginal"} -> {"UnlinkFailed"}
      [] OTHER -> {}

\* C14: every task whose call returned has its artifact in storage, and a call
\* ends either by returning from the storage write or by handing the error of the
\* stage it was in to the queue.
C14_SuccessMeansWritten ==
    /\ [](\A i \in 1..Len(tasks) :
            tasks[i].status = "completed" => ArtifactKey(tasks[i].storageKey) \in files)
    /\ [][\A w \in Workers :
            Ends(w) =>
                \/ EndsOk(w) /\ worker[w].pc = "store"
                \/ /\ EndsFailed(w)
                   /\ ById(tasks', worker[w].task).lastError \in StageErrors(worker[w].pc)]_vars

\* one call returned with its artifact stored, another threw the error of mkdir
C14_Witness ==
    /\ \E i \in 1..Len(tasks) :
          /\ tasks[i].status = "completed"
          /\ ArtifactKey(tasks[i].storageKey) \in files
    /\ \E i \in 1..Len(tasks) :
          /\ tasks[i].lastError = "MkdirFailed"
          /\ ArtifactKey(tasks[i].storageKey) \notin files

(* ================== geometry, colour, texts (SpecCompose) ============== *)

Planned == plan.pc \in {"planned", "coloured", "texts", "code", "done"}

Coloured == plan.pc \in {"coloured", "texts", "code", "done"}

\* the band height after the 3:2 step was positive: the floor policy has no part
FloorNotEngaged == plan.watermarkHeight > 0

\* contentWidth / contentHeight lies in [1.499, 1.501]
RatioInRange ==
    /\ 1499 * plan.contentHeight <= 1000 * plan.contentWidth
    /\ 1000 * plan.contentWidth <= 1501 * plan.contentHeight

\* C15 as stated: for every source size, when the floor policy is not engaged the
\* content ratio lies in [1.499, 1.501].
C15_ContentRatio ==
    (Planned /\ FloorNotEngaged) => RatioInRange

\* C15 amended: when the floor policy is not engaged the content is 3:2 up to the
\* rounding of the cropped dimension to whole pixels (or, uncropped, up to the
\* 0.001 tolerance), which puts the ratio in [1.499, 1.501] once the content is at
\* least 500 high.
C15_ContentRatioUpToRounding ==
    (Planned /\ FloorNotEngaged) =>
        /\ plan.cropped # "none" =>
              Abs(2 * plan.contentWidth - 3 * plan.contentHeight) <= 1
        /\ plan.cropped = "none" =>
              1000 * Abs(2 * plan.contentWidth - 3 * plan.contentHeight)
                  <= 2 * plan.contentHeight
        /\ plan.contentHeight >= 500 => RatioInRange

\* a crop whose rounding left the content off 3:2 by one half pixel, the content
\* being at least 500 high
C15_Witness ==
    /\ Planned
    /\ FloorNotEngaged
    /\ plan.cropped = "width"
    /\ plan.contentHeight >= 500
    /\ 2 * plan.contentWidth # 3 * plan.contentHeight
    /\ RatioInRange

\* C16: in every plan contentHeight + bandHeight is contentWidth * 3 / 4 rounded
\* to the nearest integer (a half going up).
C16_CompositeFourThree ==
    Planned =>
        LET total == plan.contentHeight + plan.bandHeight
        IN  /\ 4 * total - 3 * plan.contentWidth >= -1
            /\ 4 * total - 3 * plan.contentWidth <= 2

\* the degenerate case: a plan whose band has no height
C16_Witness ==
    /\ Planned
    /\ plan.cropped = "height"
    /\ plan.bandHeight <= 0
    /\ plan.contentHeight = TargetTotalHeight(plan.contentWidth)

\* C17: for every source size the band height used for compositing is positive.
C17_BandPositive ==
    Planned => plan.bandHeight > 0

\* C18: a portrait source whose rotated ratio is exactly 3:2 is rotated and not
\* cropped; source 4000x6000 gives content 6000x4000, band height 500, font size 125.
C18_PortraitThreeTwo ==
    /\ (Planned /\ source.width < source.height /\ 2 * source.height = 3 * source.width) =>
          /\ plan.rotated
          /\ plan.cropped = "none"
          /\ plan.contentWidth = source.height
          /\ plan.contentHeight = source.width
    /\ (Planned /\ source = [width |-> 4000, height |-> 6000]) =>
          /\ plan.rotated
          /\ plan.contentWidth = 6000
          /\ plan.contentHeight = 4000
          /\ plan.bandHeight = 500
    /\ (plan.pc = "texts" /\ source = [width |-> 4000, height |-> 6000]) =>
          plan.fontSize = 125

\* the call for source 4000x6000 has its texts prepared
C18_Witness ==
    /\ plan.pc = "texts"
    /\ source = [width |-> 4000, height |-> 6000]
    /\ plan.fontSize = 125

\* n is x / 2 rounded to the nearest integer
IsHalfOf(n, x) == 2 * n - x \in {0, 1}

\* C19: when the working ratio is more than 0.001 away from 3:2 exactly one
\* dimension is cropped: above 3:2 the height is kept and the width becomes
\* round(height * 1.5), below it the width is kept and the height becomes
\* round(width / 1.5), the offset being round((current - target) / 2); otherwise
\* nothing is cropped. Source 3000x3000 gives content 3000x2000 and band height 250.
C19_CropOneDimension ==
    Planned =>
        LET w == plan.workWidth
            h == plan.workHeight
            far == 1000 * Abs(2 * w - 3 * h) > 2 * h
        IN  /\ ~plan.adjusted
            /\ ~far => /\ plan.cropped = "none"
                       /\ plan.contentWidth = w
                       /\ plan.contentHeight = h
            /\ (far /\ 2 * w > 3 * h) =>
                  /\ plan.cropped = "width"
                  /\ plan.contentHeight = h
                  /\ IsHalfOf(plan.contentWidth, 3 * h)
                  /\ plan.crop.width = plan.contentWidth
                  /\ plan.crop.height = h
                  /\ plan.crop.top = 0
                  /\ IsHalfOf(plan.crop.left, w - plan.contentWidth)
            /\ (far /\ 2 * w < 3 * h) =>
                  /\ plan.cropped = "height"
                  /\ plan.contentWidth = w
                  /\ 3 * plan.contentHeight - 2 * w \in {-1, 0, 1}
                  /\ plan.crop.height = plan.contentHeight
                  /\ plan.crop.width = w
                  /\ plan.crop.left = 0
                  /\ IsHalfOf(plan.crop.top, h - plan.contentHeight)
            /\ source = [width |-> 3000, height |-> 3000] =>
                  /\ plan.contentWidth = 3000
                  /\ plan.contentHeight = 2000
                  /\ plan.bandHeight = 250

\* the plan of source 3000x3000: the height cropped around the centre
C19_Witness ==
    /\ Planned
    /\ source = [width |-> 3000, height |-> 3000]
    /\ plan.cropped = "height"
    /\ plan.crop = [left |-> 0, top |-> 500, width |-> 3000, height |-> 2000]

\* C20: the foreground is black exactly when the luminance of the rounded channel
\* means, 0.2126 R/255 + 0.7152 G/255 + 0.0722 B/255, is above one half, white
\* otherwise, and (128,128,128) gives black.
C20_ForegroundByLuminance ==
    Coloured =>
        LET R == plan.mean[1]
            G == plan.mean[2]
            B == plan.mean[3]
            bright == 2 * (2126 * R + 7152 * G + 722 * B) > 255 * 10000
        IN  /\ plan.foregroundColor = "black" <=> bright
            /\ plan.foregroundColor = "white" <=> ~bright
            /\ plan.mean = <<128, 128, 128>> => plan.foregroundColor = "black"

\* the boundary input has been analysed
C20_Witness ==
    /\ Coloured
    /\ plan.mean = <<128, 128, 128>>
    /\ plan.foregroundColor = "black"
    /\ source = [width |-> 6000, height |-> 4000]

\* C21: for every band height the code generator is called with a positive size.
C21_CodeSizePositive ==
    plan.pc = "code" => plan.qrCodeSize > 0

(* ======================= artifact keys (SpecArtifacts) ================= *)

\* the artifact keys the runs for one source key have written
KeysOf(storageKey) == { c.key : c \in { d \in created : d.source = storageKey } }

\* C22: every run writes key 'print/<basename(storageKey)>' with content type
\* 'image/jpeg', so the runs for one storageKey write one and the same key and
\* leave one artifact for it.
C22_SameKeyEveryRun ==
    /\ \A c \in created :
          /\ c.key = <<"print", "/">> \o Basename(c.source)
          /\ c.contentType = "image/jpeg"
          /\ c.key \in files
    /\ \A c \in created : Cardinality(KeysOf(c.source)) = 1

\* two runs for photos/a have both stored their artifact
C22_Witness ==
    /\ \E c \in created : \E d \in created :
          /\ c.task # d.task
          /\ c.source = <<"photos", "/", "a">>
          /\ d.source = <<"photos", "/", "a">>
    /\ <<"print", "/", "a">> \in files

\* C28: runs for two different source keys never write the same artifact key.
C28_ArtifactKeyInjective ==
    \A c \in created : \A d \in created :
        c.source # d.source => c.key # d.key

\* C25: on local storage, a request for a name whose task has completed is served
\* the artifact and enqueues nothing.
C25_ServedAfterSuccess ==
    (/\ resp.route = "enqueue"
     /\ Accepted(resp.name)
     /\ provider = "local"
     /\ \E i \in 1..Len(tasks) :
           /\ tasks[i].status = "completed"
           /\ tasks[i].storageKey = RouteStorageKey(resp.name)) =>
        /\ resp.status = 200
        /\ resp.addTask = NoCall

\* the rotations of a finished call are as the claim has them, and its output has
\* the composite's dimensions, swapped when it was rotated
RotationRule ==
    /\ plan.rotated <=> source.width < source.height
    /\ plan.rotateAngle = IF plan.rotated THEN -90 ELSE 0
    /\ plan.rotateBackAngle = IF plan.rotated THEN 90 ELSE 0
    /\ plan.rotateAngle + plan.rotateBackAngle = 0
    /\ plan.output =
          IF plan.rotated
          THEN [width |-> plan.contentHeight + plan.bandHeight, height |-> plan.contentWidth]
          ELSE [width |-> plan.contentWidth, height |-> plan.contentHeight + plan.bandHeight]

\* C23 as stated: the image is rotated by -90 degrees exactly when W < H, the
\* composite is rotated back by +90 degrees exactly then, and the output of a
\* portrait source is a portrait with the swapped dimensions of the composite.
C23_RotateAndBack ==
    plan.pc = "done" =>
        /\ RotationRule
        /\ source.width < source.height => plan.output.width < plan.output.height

\* C23 amended: the same, the output of a portrait source being higher than wide
\* when the content is at least 3 wide, and square (2x2) when it is 2 wide.
C23_RotateAndBackFromThree ==
    plan.pc = "done" =>
        /\ RotationRule
        /\ (source.width < source.height /\ plan.contentWidth >= 3) =>
              plan.output.width < plan.output.height
        /\ (source.width < source.height /\ plan.contentWidth < 3) =>
              plan.output = [width |-> 2, height |-> 2]

\* the output of portrait source 4000x6000: 4500 wide, 6000 high
C23_Witness ==
    /\ plan.pc = "done"
    /\ source = [width |-> 4000, height |-> 6000]
    /\ plan.rotated
    /\ plan.output = [width |-> 4500, height |-> 6000]

Inside(extract, width, height) ==
    /\ extract.left >= 0
    /\ extract.top >= 0
    /\ extract.width >= 1
    /\ extract.height >= 1
    /\ extract.left + extract.width <= width
    /\ extract.top + extract.height <= height

\* C27: every extract the call requests lies inside the image it is applied to,
\* and passes the dimension it does not crop unchanged.
C27_CropInsideImage ==
    Planned =>
        /\ plan.cropped # "none" => Inside(plan.crop, plan.workWidth, plan.workHeight)
        /\ plan.cropped = "width" =>
              plan.crop.top = 0 /\ plan.crop.height = plan.workHeight
        /\ plan.cropped = "height" =>
              plan.crop.left = 0 /\ plan.crop.width = plan.workWidth
        /\ plan.adjusted =>
              /\ Inside(plan.adjust, plan.contentWidth, plan.croppedHeight)
              /\ plan.adjust.left = 0
              /\ plan.adjust.width = plan.contentWidth

\* a width crop of an odd surplus: the offset is rounded up and the rectangle
\* still ends inside the image
C27_Witness ==
    /\ Planned
    /\ plan.cropped = "width"
    /\ (plan.workWidth - plan.crop.width) % 2 = 1
    /\ plan.crop.left + plan.crop.width < plan.workWidth
    /\ plan.crop.left > 0

(* ==================== name validation (SpecRoute) ====================== *)

\* the name contains '..', '/' or '\'
Traversing(name) ==
    \/ \E i \in 1..Len(name) : name[i] \in {"/", "\\"}
    \/ \E i \in 1..(Len(name) - 1) : name[i] = "." /\ name[i + 1] = "."

\* a resolved path is <basePath>/photos or lies below it
InsidePhotos(resolved) == Len(resolved) >= 1 /\ resolved[1] = <<"photos">>

\* C24: a request whose name contains '..', '/' or '\' is answered 400 with no
\* file access, no database query and no addTask; every path accessed for an
\* accepted name, and the artifact and source paths of every accepted name, lie
\* inside <basePath>/photos.
C24_NoTraversal ==
    /\ (resp.route # "none" /\ Traversing(resp.name)) =>
          /\ resp.status = 400
          /\ resp.accessed = {}
          /\ ~resp.queried
          /\ resp.addTask = NoCall
    /\ (resp.route # "none" /\ resp.status # 400) =>
          /\ ~Traversing(resp.name)
          /\ \A p \in resp.accessed : InsidePhotos(Resolve(p))
    /\ \A n \in (RequestNames \cup { <<".">> }) \ { <<>> } :
          ~Traversing(n) =>
              /\ InsidePhotos(Resolve(<<"photos", "/", "print", "/">> \o n))
              /\ InsidePhotos(Resolve(<<"photos", "/">> \o n))

\* a name with a separator was refused while the artifact of a stood in storage,
\* by the handler that enqueues
C24_Witness ==
    /\ resp.route = "enqueue"
    /\ resp.name = <<"a", "/", "b">>
    /\ resp.status = 400
    /\ PrintFilePath(<<"a">>) \in files
    /\ OriginalFilePath(<<"a">>) \in files

(* ----------------------------- C29, C30 ------------------------------- *)

\* C29: any two requests sent to the same geocoding service are at least
\* rateLimitMs apart, for calls through extractLocationFromGPS with the default
\* provider and for calls that overlap on one provider instance.
C29_RequestsSpaced ==
    \A r1 \in geo.sent, r2 \in geo.sent :
        (r1 # r2 /\ r1.service = r2.service)
            => Abs(r1.time - r2.time) >= RateLimitMs(r1.service)

\* a coordinate pair with |latitude| <= 90 and |longitude| <= 180
InRange(lat, lon) ==
    /\ lat.given /\ lon.given
    /\ Abs(lat.value) <= 90 /\ Abs(lon.value) <= 180

\* C30: extractLocationFromGPS calls the provider's reverseGeocode for every
\* coordinate pair in range, returns null without calling the provider only when
\* a coordinate is missing or out of range, and never throws.
C30_CallsProviderWhenInRange ==
    \A c \in GeoCalls :
        geo.call[c].pc # "idle" =>
            /\ InRange(geo.call[c].lat, geo.call[c].lon) => geo.call[c].called
            /\ ~geo.call[c].called =>
                  /\ geo.call[c].result = "null"
                  /\ ~InRange(geo.call[c].lat, geo.call[c].lon)
            /\ geo.call[c].result # "threw"

====
